---- MODULE Spec2Model ----
(***************************************************************************)
(* A model of the 4-parameter similarity transform engine of               *)
(* tools/transform.py: the Transform object (forward, inverse, save, load),*)
(* the estimator calculate_transform with its three strategies, and        *)
(* calculate_errors.                                                       *)
(*                                                                         *)
(* Numbers.  The program computes in IEEE doubles; the model computes in   *)
(* exact rational arithmetic (a rational is a pair <<n, d>> in lowest      *)
(* terms with d > 0), so every equality below is an equality of real       *)
(* arithmetic: rounding error of the floating-point operations is not      *)
(* modelled.  The only place where the binary representation matters, the  *)
(* decimal text written by save and parsed by load, is modelled with a     *)
(* scaled-down binary floating-point format (MantBits bits of mantissa).   *)
(* cos and sin are exact on the multiples of 90 degrees, the only rational *)
(* angles where both are rational; a square root is taken exactly where it *)
(* is rational and kept as a surd in the error report.                     *)
(***************************************************************************)
EXTENDS Integers, Sequences, FiniteSets, TLC

(***************************************************************************)
(* Bounds of the model.                                                    *)
(***************************************************************************)
MaxCoord == 1
MaxLinks == 3
MaxWeight == 2

\* Python's None; no list handed to the program is empty, so it is not mistaken for one
None == <<>>
\* no exception
NoErr == "none"

(***************************************************************************)
(* Exact rational arithmetic.                                              *)
(***************************************************************************)
Abs(i) == IF i < 0 THEN -i ELSE i

RECURSIVE GCD(_, _)
GCD(a, b) == IF b = 0 THEN a ELSE GCD(b, a % b)

Rat(n, d) ==
  LET g == GCD(Abs(n), Abs(d))
      s == IF d < 0 THEN -1 ELSE 1
  IN  <<(s * n) \div g, (s * d) \div g>>

Q(i) == <<i, 1>>
Zero == Q(0)
One == Q(1)

\* over the least common denominator, which keeps the integers small
Add(p, q) ==
  IF p[2] = q[2] THEN Rat(p[1] + q[1], p[2])
  ELSE LET g == GCD(p[2], q[2])
       IN  Rat(p[1] * (q[2] \div g) + q[1] * (p[2] \div g), (p[2] \div g) * q[2])
Neg(p) == <<-p[1], p[2]>>
Sub(p, q) == Add(p, Neg(q))
Mul(p, q) == Rat(p[1] * q[1], p[2] * q[2])
\* defined for q # 0 only
Div(p, q) == Rat(p[1] * q[2], p[2] * q[1])
Less(p, q) == p[1] * q[2] < q[1] * p[2]
IsZero(p) == p[1] = 0

\* the integer square root of a perfect square, -1 for any other integer
ISqrt(i) ==
  IF i < 0 THEN -1
  ELSE IF \E r \in 0..i : r * r = i THEN CHOOSE r \in 0..i : r * r = i ELSE -1

HasRatSqrt(p) == ISqrt(p[1]) >= 0 /\ ISqrt(p[2]) >= 0
\* math.sqrt where the root is rational
Sqrt(p) == <<ISqrt(p[1]), ISqrt(p[2])>>

(***************************************************************************)
(* numpy arrays: a vector is a sequence of rationals, a matrix a sequence  *)
(* of rows.                                                                *)
(***************************************************************************)
\* a sequence given as a function, as the tuple of its elements
Array(f) == f \o <<>>

RECURSIVE SumSeq(_)
SumSeq(s) == IF s = <<>> THEN Zero ELSE Add(s[1], SumSeq(Tail(s)))

Dot(u, v) == SumSeq(Array([i \in 1..Len(u) |-> Mul(u[i], v[i])]))
VAdd(u, v) == Array([i \in 1..Len(u) |-> Add(u[i], v[i])])
VSub(u, v) == Array([i \in 1..Len(u) |-> Sub(u[i], v[i])])
VScale(c, u) == Array([i \in 1..Len(u) |-> Mul(c, u[i])])
Col(M, j) == Array([i \in 1..Len(M) |-> M[i][j]])
\* M.T
T(M) == Array([j \in 1..Len(M[1]) |-> Col(M, j)])
\* M.dot(v) for a vector v
MatVec(M, v) == Array([i \in 1..Len(M) |-> Dot(M[i], v)])
\* M.dot(N) for a matrix N
MatMul(M, N) ==
  LET Nt == T(N)
  IN  Array([i \in 1..Len(M) |-> Array([j \in 1..Len(Nt) |-> Dot(M[i], Nt[j])])])
MatScale(M, c) == Array([i \in 1..Len(M) |-> VScale(c, M[i])])
\* np.diag(w)
Diag(w) == Array([i \in 1..Len(w) |-> Array([j \in 1..Len(w) |-> IF i = j THEN w[i] ELSE Zero])])
DropAt(s, k) == SubSeq(s, 1, k - 1) \o SubSeq(s, k + 1, Len(s))
Minor(M, i, j) ==
  LET rows == DropAt(M, i)
  IN  Array([r \in 1..Len(rows) |-> DropAt(rows[r], j)])

RECURSIVE Det(_)
\* npla.det, by expansion along the first row
Det(M) ==
  IF Len(M) = 1 THEN M[1][1]
  ELSE SumSeq(Array([j \in 1..Len(M) |->
         Mul(Mul(Q(IF j % 2 = 1 THEN 1 ELSE -1), M[1][j]), Det(Minor(M, 1, j)))]))

\* npla.inv raises LinAlgError('Singular matrix') on a singular matrix
Singular(M) == IsZero(Det(M))
\* the adjugate of M over d
AdjugateOver(M, d) ==
  LET n == Len(M)
      Cof(i, j) == IF n = 1 THEN One
                   ELSE Mul(Q(IF (i + j) % 2 = 0 THEN 1 ELSE -1), Det(Minor(M, i, j)))
  IN  Array([i \in 1..n |-> Array([j \in 1..n |-> Div(Cof(j, i), d)])])
\* npla.inv of a non-singular matrix: the adjugate over the determinant
Inv(M) == AdjugateOver(M, Det(M))

Identity2 == <<<<One, Zero>>, <<Zero, One>>>>
Zeros2 == <<Zero, Zero>>

(***************************************************************************)
(* class Transform: R is a 2x2 matrix, t a 2-vector.  The tag              *)
(* transform_type is attached by calculate_transform only.                 *)
(***************************************************************************)
NoTag == ""

\* Transform.__init__
NewTransform(R, t) ==
  [R |-> IF R # None THEN R ELSE Identity2,
   t |-> IF t # None THEN t ELSE Zeros2,
   transform_type |-> NoTag]

\* Transform.translation
Translation(x) == <<x.t[1], x.t[2]>>

\* the first column of R: a1, b1 = self.R[:, 0].flat
A1(x) == x.R[1][1]
B1(x) == x.R[2][1]

\* Transform.rotation: math.degrees(math.atan2(b1, a1)), a number of degrees
\* along the axes and the diagonals, the term atan2(b1, a1) elsewhere
Rotation(x) ==
  LET a1 == A1(x)
      b1 == B1(x)
      pos(q) == Less(Zero, q)
      neg(q) == Less(q, Zero)
  IN  IF IsZero(b1) THEN (IF neg(a1) THEN Q(180) ELSE Zero)
      ELSE IF IsZero(a1) THEN (IF pos(b1) THEN Q(90) ELSE Q(-90))
      ELSE IF a1 = b1 \/ a1 = Neg(b1) THEN
        (IF pos(a1) THEN (IF pos(b1) THEN Q(45) ELSE Q(-45))
         ELSE (IF pos(b1) THEN Q(135) ELSE Q(-135)))
      ELSE [atan2 |-> <<b1, a1>>]

\* Transform.scale: math.sqrt(a1**2 + b1**2), the root where it is rational,
\* the surd [sqrt |-> a1**2 + b1**2] elsewhere
Scale(x) ==
  LET k2 == Add(Mul(A1(x), A1(x)), Mul(B1(x), B1(x)))
  IN  IF HasRatSqrt(k2) THEN Sqrt(k2) ELSE [sqrt |-> k2]

\* Transform.forward: t + R.dot(pt)
Forward(x, pt) == VAdd(x.t, MatVec(x.R, pt))

\* Transform.inverse raises LinAlgError where npla.inv(self.R) does
InverseRaises(x) == Singular(x.R)
\* not the program: the inverse with the translation left in
InverseUnshifted(x, pt) == MatVec(Inv(x.R), pt)

\* Transform.inverse: inv(R).dot(pt - t)
Inverse(x, pt) == MatVec(Inv(x.R), VSub(pt, x.t))

(***************************************************************************)
(* calculate_transform(links, weights, rotate, scale).  A link is          *)
(* <<name, source, target>>, a weight <<name, value>>.                     *)
(***************************************************************************)
\* np.array([p[1] for p in links]) and np.array([p[2] for p in links])
SrcOf(links) == Array([i \in 1..Len(links) |-> links[i][2]])
DstOf(links) == Array([i \in 1..Len(links) |-> links[i][3]])

\* not the program: missing weights taken as 1, 2, 3, ...
WeightValuesRamp(links, weights) ==
  IF weights = None THEN Array([i \in 1..Len(links) |-> Q(i)])
  ELSE Array([i \in 1..Len(weights) |-> weights[i][2]])

\* not the program: the weight of a link is the one that bears its name, 1.0
\* where there is none
WeightValuesByName(links, weights) ==
  IF weights = None THEN Array([i \in 1..Len(links) |-> One])
  ELSE Array([i \in 1..Len(weights) |->
         IF i <= Len(links) /\ \E j \in 1..Len(weights) : weights[j][1] = links[i][1]
           THEN weights[CHOOSE j \in 1..Len(weights) : weights[j][1] = links[i][1]][2]
         ELSE One])

\* weights = np.ones(n) if weights is None, else the values w[1]
WeightValues(links, weights) ==
  IF weights = None THEN Array([i \in 1..Len(links) |-> One])
  ELSE Array([i \in 1..Len(weights) |-> weights[i][2]])

\* not the program: the plain mean of the points, the weights left out
AverageUnweighted(pts, w) ==
  Array([k \in 1..2 |->
    Div(SumSeq(Array([i \in 1..Len(pts) |-> pts[i][k]])), Q(Len(pts)))])

\* np.average(pts, weights=w, axis=0) raises ZeroDivisionError when the weights sum to zero
AverageRaises(w) == IsZero(SumSeq(w))
Average(pts, w) ==
  LET scl == SumSeq(w)
  IN  Array([k \in 1..2 |->
              Div(SumSeq(Array([i \in 1..Len(pts) |-> Mul(pts[i][k], w[i])])), scl)])

\* not the program: the same branches with scale tested before rotate
TransformTypeScaleFirst(n, rotate, scale) ==
  IF n = 1 THEN "Rotate/Scale/Translate"
  ELSE IF scale # None THEN "SVD"
  ELSE IF rotate # None THEN "Rotate/Scale/Translate"
  ELSE "Conformal"

\* the branch taken at lines 153, 167 and 185
TransformType(n, rotate, scale) ==
  IF n = 1 \/ rotate # None THEN "Rotate/Scale/Translate"
  ELSE IF scale # None THEN "SVD"
  ELSE "Conformal"

\* math.cos(math.radians(deg)) and math.sin(math.radians(deg)), deg a whole multiple of 90
CosDeg(deg) == Q(CASE deg[1] % 360 = 0 -> 1 [] deg[1] % 360 = 180 -> -1 [] OTHER -> 0)
SinDeg(deg) == Q(CASE deg[1] % 360 = 90 -> 1 [] deg[1] % 360 = 270 -> -1 [] OTHER -> 0)

\* not the program: the matrix with the sign of b1 lost
SimilarityUnsigned(a1, b1) == <<<<a1, b1>>, <<b1, a1>>>>

\* np.array([[a1, -b1], [b1, a1]])
Similarity(a1, b1) == <<<<a1, Neg(b1)>>, <<b1, a1>>>>

\* not the program: cosine and sine exchanged
RstMatrixSwapped(rotate, scale) ==
  LET rot == IF rotate = None THEN Zero ELSE rotate
      sc == IF scale = None THEN One ELSE scale
      a1 == Mul(SinDeg(rot), sc)
      b1 == Mul(CosDeg(rot), sc)
  IN  Similarity(a1, b1)

\* lines 155-164: the matrix of the Rotate/Scale/Translate strategy
RstMatrix(rotate, scale) ==
  LET rot == IF rotate = None THEN Zero ELSE rotate
      sc == IF scale = None THEN One ELSE scale
      a1 == Mul(CosDeg(rot), sc)
      b1 == Mul(SinDeg(rot), sc)
  IN  Similarity(a1, b1)

\* not the program: the shift between the centroids, R left out
CentroidShiftUnrotated(R, centroid_src, centroid_dst) == VSub(centroid_dst, centroid_src)

\* t = centroid_dst - R.dot(centroid_src)
CentroidShift(R, centroid_src, centroid_dst) == VSub(centroid_dst, MatVec(R, centroid_src))

\* lines 172-175: H = src.T.dot(np.diag(weights)).dot(dst) of the centred points
CrossCovariance(src, dst, w, centroid_src, centroid_dst) ==
  LET cs == Array([i \in 1..Len(src) |-> VSub(src[i], centroid_src)])
      cd == Array([i \in 1..Len(dst) |-> VSub(dst[i], centroid_dst)])
  IN  MatMul(MatMul(T(cs), Diag(w)), cd)

SumSq(c, s) == Add(Mul(c, c), Mul(s, s))
\* the proper rotation and the reflection nearest to M = H.T
RotDir(H) == <<Add(H[1][1], H[2][2]), Sub(H[1][2], H[2][1])>>
ReflDir(H) == <<Sub(H[1][1], H[2][2]), Add(H[2][1], H[1][2])>>
UnitRot(d) ==
  LET k == Sqrt(SumSq(d[1], d[2])) IN Similarity(Div(d[1], k), Div(d[2], k))
UnitRefl(d) ==
  LET k == Sqrt(SumSq(d[1], d[2]))
      c == Div(d[1], k)
      s == Div(d[2], k)
  IN  <<<<c, s>>, <<s, Neg(c)>>>>

\* the orthogonal matrices with entries in {-1, 0, 1}
SignedPermutations ==
  LET U == {Q(-1), Zero, One}
  IN  {M \in {<<<<a, b>>, <<c, d>>>> : a \in U, b \in U, c \in U, d \in U} :
         MatMul(M, T(M)) = Identity2}
\* the identity, the quarter turn and the reflection in the x axis
SomeOrthogonal == {Identity2, <<<<Zero, Q(-1)>>, <<One, Zero>>>>, <<<<One, Zero>>, <<Zero, Q(-1)>>>>}

\* lines 176-177: the matrices Vt.T.dot(U.T) that a singular value decomposition
\* H = U.S.Vt can give.  It is the orthogonal matrix nearest to H.T: one proper
\* rotation when det(H) > 0, one reflection when det(H) < 0.  When det(H) = 0 the
\* decomposition is not unique and the library's choice of the second singular
\* vectors decides between the two; for H = 0 every orthogonal matrix is a
\* decomposition (the model takes three of them).
SvdProcrustes(H) ==
  LET d == Det(H)
  IN  IF Less(Zero, d) THEN {UnitRot(RotDir(H))}
      ELSE IF Less(d, Zero) THEN {UnitRefl(ReflDir(H))}
      ELSE IF H = <<Zeros2, Zeros2>> THEN SomeOrthogonal
      ELSE {UnitRot(RotDir(H)), UnitRefl(ReflDir(H))}

\* the square roots taken by SvdProcrustes are rational
SvdExact(H) ==
  LET d == Det(H)
  IN  /\ ~Less(d, Zero) => HasRatSqrt(SumSq(RotDir(H)[1], RotDir(H)[2]))
      /\ ~Less(Zero, d) => HasRatSqrt(SumSq(ReflDir(H)[1], ReflDir(H)[2]))

\* not the program: the design matrix with the sign of y lost in the x rows
DesignMatrixUnsigned(src) ==
  Array([r \in 1..(2 * Len(src)) |->
     LET p == src[(r + 1) \div 2]
     IN  IF r % 2 = 1 THEN <<One, Zero, p[1], p[2]>>
         ELSE <<Zero, One, p[2], p[1]>>])

\* lines 202-203: the design matrix A, shape (2n, 4)
DesignMatrix(src) ==
  Array([r \in 1..(2 * Len(src)) |->
     LET p == src[(r + 1) \div 2]
     IN  IF r % 2 = 1 THEN <<One, Zero, p[1], Neg(p[2])>>
         ELSE <<Zero, One, p[2], p[1]>>])

\* not the program: every observation counted once, the weights left out
WeightMatrixOnes(w) == Diag(Array([r \in 1..(2 * Len(w)) |-> One]))

\* line 206: W = np.diag(weights.repeat(2))
WeightMatrix(w) == Diag(Array([r \in 1..(2 * Len(w)) |-> w[(r + 1) \div 2]]))

\* line 209: b = dst.reshape(2 * n)
Observed(dst) ==
  Array([r \in 1..(2 * Len(dst)) |-> dst[(r + 1) \div 2][IF r % 2 = 1 THEN 1 ELSE 2]])

\* A.T.dot(W).dot(A)
NormalMatrix(src, w) == MatMul(MatMul(T(DesignMatrix(src)), WeightMatrix(w)), DesignMatrix(src))

\* line 218: x = inv(A.T.W.A).dot(A.T).dot(W).dot(b)
ConformalSolve(src, dst, w) ==
  MatVec(MatMul(MatMul(Inv(NormalMatrix(src, w)), T(DesignMatrix(src))), WeightMatrix(w)),
         Observed(dst))

\* not the program: the test of line 179 with the sign turned round
MirroredReversed(R) == Less(Zero, Det(R))

\* line 179: npla.det(R) < 0
Mirrored(R) == Less(Det(R), Zero)

\* not the program: a call that fails still hands back the Transform it began with
RaisedPartial(e) == [err |-> e, xfm |-> NewTransform(None, None)]

Raised(e) == [err |-> e, xfm |-> None]
Returned(R, t, tag) == [err |-> NoErr, xfm |-> [NewTransform(R, t) EXCEPT !.transform_type = tag]]

\* lines 220-222: a0, b0, a1, b1 = x.flat
ConformalResult(x, tag) == Returned(Similarity(x[3], x[4]), <<x[1], x[2]>>, tag)

\* twice the signed area of the triangle of three points
Area2(p, q, r) ==
  Sub(Mul(Sub(q[1], p[1]), Sub(r[2], p[2])), Mul(Sub(q[2], p[2]), Sub(r[1], p[1])))
Collinear(ps) == \A i, j, k \in 1..Len(ps) : IsZero(Area2(ps[i], ps[j], ps[k]))

\* not the program: the solve refusing every list of sources that lie on one line
ConformalCollinearFails(src, dst, w, tag) ==
  IF Singular(NormalMatrix(src, w)) \/ Collinear(src) THEN Raised("LinAlgError")
  ELSE ConformalResult(ConformalSolve(src, dst, w), tag)

\* lines 201-222: LinAlgError from npla.inv, or the four parameters as R and t
Conformal(src, dst, w, tag) ==
  IF Singular(NormalMatrix(src, w)) THEN Raised("LinAlgError")
  ELSE ConformalResult(ConformalSolve(src, dst, w), tag)

\* the outcomes of calculate_transform: an exception, or the Transform returned
calculate_transform(links, weights, rotate, scale) ==
  LET n == Len(links)
      w == WeightValues(links, weights)
      src == SrcOf(links)
      dst == DstOf(links)
      centroid_src == Average(src, w)
      centroid_dst == Average(dst, w)
      tag == TransformType(n, rotate, scale)
  IN  IF ~(n > 0) THEN {Raised("AssertionError")}
      ELSE IF weights # None /\ Len(weights) # n THEN {Raised("AssertionError")}
      ELSE IF AverageRaises(w) THEN {Raised("ZeroDivisionError")}
      ELSE IF tag = "Rotate/Scale/Translate" THEN
        LET R == RstMatrix(rotate, scale)
        IN  {Returned(R, CentroidShift(R, centroid_src, centroid_dst), tag)}
      ELSE IF tag = "SVD" THEN
        {IF Mirrored(R) THEN Raised("MirroredTransformError")
         ELSE LET Rs == MatScale(R, scale)
              IN  Returned(Rs, CentroidShift(Rs, centroid_src, centroid_dst), tag) :
           R \in SvdProcrustes(CrossCovariance(src, dst, w, centroid_src, centroid_dst))}
      ELSE {Conformal(src, dst, w, tag)}

(***************************************************************************)
(* calculate_errors(xfm, links).  A residual is a square root, kept as the *)
(* surd [sqrt |-> q] of its rational radicand q.                           *)
(***************************************************************************)
Surd(q) == [sqrt |-> q]
\* s ** 2
Squared(s) == s.sqrt

\* not the program: the distance from the source itself to the target
LinkErrorUnmoved(x, link) ==
  LET d == VSub(link[2], link[3])
  IN  Surd(Add(Mul(d[1], d[1]), Mul(d[2], d[2])))

\* line 246-247: the residual distance of one link
LinkError(x, link) ==
  LET d == VSub(Forward(x, link[2]), link[3])
  IN  Surd(Add(Mul(d[1], d[1]), Mul(d[2], d[2])))

\* not the program: the root of the sum of the squares, the mean forgotten
calculate_errors_unaveraged(x, links) ==
  LET names == Array([i \in 1..Len(links) |-> links[i][1]])
      errs == Array([i \in 1..Len(links) |-> LinkError(x, links[i])])
      rms == Surd(SumSeq(Array([i \in 1..Len(errs) |-> Squared(errs[i])])))
  IN  [link_errors |-> Array([i \in 1..Len(links) |-> <<names[i], errs[i]>>]), rms |-> rms]

\* lines 243-250: (zip(names, errs), rms)
calculate_errors(x, links) ==
  LET names == Array([i \in 1..Len(links) |-> links[i][1]])
      errs == Array([i \in 1..Len(links) |-> LinkError(x, links[i])])
      rms == Surd(Div(SumSeq(Array([i \in 1..Len(errs) |-> Squared(errs[i])])), Q(Len(errs))))
  IN  [link_errors |-> Array([i \in 1..Len(links) |-> <<names[i], errs[i]>>]), rms |-> rms]

(***************************************************************************)
(* The parameter file.  A double is modelled as a binary floating-point    *)
(* number with MantBits bits of mantissa (53 in the program).  np.savetxt  *)
(* writes each value with its default format '%.18e': 19 significant       *)
(* decimal digits, two more than the 17 that tell any two doubles apart;   *)
(* the model writes two more than tell any two MantBits-bit numbers apart. *)
(* A written value is [neg, digits, exp], the text of the number           *)
(* (-1)^neg * digits * 10^exp.                                             *)
(***************************************************************************)
MantBits == 4

RECURSIVE Pow(_, _)
Pow(b, k) == IF k = 0 THEN 1 ELSE b * Pow(b, k - 1)
\* b^k as a rational, k of either sign
RPow(b, k) == IF k >= 0 THEN <<Pow(b, k), 1>> ELSE <<1, Pow(b, -k)>>
RAbs(q) == <<Abs(q[1]), q[2]>>
ExpRange == -8..8

\* a non-negative rational rounded to the nearest integer, ties to even
RoundHalfEven(q) ==
  LET f == q[1] \div q[2]
      r2 == 2 * (q[1] - f * q[2])
  IN  IF r2 < q[2] THEN f
      ELSE IF r2 > q[2] THEN f + 1
      ELSE IF f % 2 = 0 THEN f ELSE f + 1

\* the exponent x with b^x <= q < b^(x+1), q > 0
ExponentOf(b, q) ==
  CHOOSE x \in ExpRange : ~Less(q, RPow(b, x)) /\ Less(q, RPow(b, x + 1))

\* the number of significant decimal digits that tell any two numbers of bits bits apart
RoundTripDigits(bits) == CHOOSE d \in 1..9 : Pow(10, d - 1) > Pow(2, bits) /\
                                           ~(d > 1 /\ Pow(10, d - 2) > Pow(2, bits))
FmtDigits == RoundTripDigits(MantBits) + 2

\* '%.<digits - 1>e' % q
FormatE(q, digits) ==
  IF IsZero(q) THEN [neg |-> FALSE, digits |-> 0, exp |-> -(digits - 1)]
  ELSE LET a == RAbs(q)
           x == ExponentOf(10, a) - (digits - 1)
           m == RoundHalfEven(Div(a, RPow(10, x)))
       IN  IF m = Pow(10, digits)
           THEN [neg |-> q[1] < 0, digits |-> Pow(10, digits - 1), exp |-> x + 1]
           ELSE [neg |-> q[1] < 0, digits |-> m, exp |-> x]

\* the real number a written value denotes
Denotes(v) ==
  LET a == Mul(Q(v.digits), RPow(10, v.exp))
  IN  IF v.neg THEN Neg(a) ELSE a

\* the nearest number with MantBits bits of mantissa
RoundToFloat(q) ==
  IF IsZero(q) THEN Zero
  ELSE LET a == RAbs(q)
           e == ExponentOf(2, a) - (MantBits - 1)
           m == RoundHalfEven(Div(a, RPow(2, e)))
           r == Mul(Q(m), RPow(2, e))
       IN  IF q[1] < 0 THEN Neg(r) ELSE r

\* q is a double of the model
IsFloat(q) == RoundToFloat(q) = q

\* float(text)
ParseFloat(v) == RoundToFloat(Denotes(v))

CommentLine(text) == [kind |-> "comment", text |-> text, values |-> <<>>]
DataLine(values) == [kind |-> "data", text |-> "", values |-> values]

\* np.savetxt(outfile, X, header=header): the header, every line of it after
\* the comment mark '# ', then the rows of X.  A 1-D array X is written as a
\* column, one value on a line.
SaveTxt(X, header, digits) ==
  [lines |-> Array([i \in 1..Len(header) |-> CommentLine(header[i])])
               \o Array([i \in 1..Len(X) |-> DataLine(<<FormatE(X[i], digits)>>)])]

\* not the program: the parameters written with one significant digit ('%.0e')
SaveOneDigit(x, now) ==
  LET header == <<"Similarity transform paramerters a0, b0, a1, b1", "Created " \o now, "">>
      params == x.t \o Col(x.R, 1)
  IN  SaveTxt(params, header, 1)

\* Transform.save: header is the two lines, each ended by '\n', so that it
\* splits into the label, the timestamp and an empty last line;
\* params = np.hstack((self.t, self.R[:, 0]))
Save(x, now) ==
  LET header == <<"Similarity transform paramerters a0, b0, a1, b1", "Created " \o now, "">>
      params == x.t \o Col(x.R, 1)
  IN  SaveTxt(params, header, FmtDigits)

RECURSIVE Flat(_)
\* the values of a sequence of rows, row by row
Flat(rows) == IF rows = <<>> THEN <<>> ELSE rows[1] \o Flat(Tail(rows))

\* a written value that float() does not take, such as 'abc'
Word(w) == [word |-> w]
IsNumeric(v) == "digits" \in DOMAIN v

\* np.loadtxt(infile).flat: the values of the lines that are not comments;
\* np.loadtxt raises ValueError when the rows differ in length or a value is
\* no number
LoadTxtRows(f) == SelectSeq(f.lines, LAMBDA l : l.kind = "data")
LoadTxtRaises(f) ==
  \/ \E i, j \in 1..Len(LoadTxtRows(f)) :
        Len(LoadTxtRows(f)[i].values) # Len(LoadTxtRows(f)[j].values)
  \/ \E i \in 1..Len(LoadTxtRows(f)) :
        \E j \in 1..Len(LoadTxtRows(f)[i].values) : ~IsNumeric(LoadTxtRows(f)[i].values[j])
LoadTxt(f) ==
  LET rows == LoadTxtRows(f)
  IN  Flat(Array([i \in 1..Len(rows) |->
             Array([j \in 1..Len(rows[i].values) |-> ParseFloat(rows[i].values[j])])]))

\* not the program: a load that takes the first four values of a longer file
LoadLenient(x, f) ==
  IF LoadTxtRaises(f) \/ Len(LoadTxt(f)) < 4 THEN [err |-> "ValueError", xfm |-> x]
  ELSE LET v == LoadTxt(f)
       IN  [err |-> NoErr,
            xfm |-> [x EXCEPT !.R = Similarity(v[3], v[4]), !.t = <<v[1], v[2]>>]]

\* not the program: t is assigned as soon as a0 and b0 are read
LoadPiecewise(x, f) ==
  IF LoadTxtRaises(f) THEN [err |-> "ValueError", xfm |-> x]
  ELSE LET v == LoadTxt(f)
       IN  IF Len(v) = 4
             THEN [err |-> NoErr,
                   xfm |-> [x EXCEPT !.R = Similarity(v[3], v[4]), !.t = <<v[1], v[2]>>]]
           ELSE IF Len(v) >= 2 THEN [err |-> "ValueError", xfm |-> [x EXCEPT !.t = <<v[1], v[2]>>]]
           ELSE [err |-> "ValueError", xfm |-> x]

\* Transform.load: the outcome [err, xfm] of x.load(f); unpacking anything
\* but four values raises ValueError before R or t is assigned
Load(x, f) ==
  IF LoadTxtRaises(f) \/ Len(LoadTxt(f)) # 4 THEN [err |-> "ValueError", xfm |-> x]
  ELSE LET v == LoadTxt(f)
       IN  [err |-> NoErr,
            xfm |-> [x EXCEPT !.R = Similarity(v[3], v[4]), !.t = <<v[1], v[2]>>]]

(***************************************************************************)
(* utils.dms_degrees(dms).  The argument is [form, val]: a float           *)
(* DDD.MMSSssss, a list or tuple of numbers, or a value of another type;   *)
(* the outcome is [err, msg, val].  Numbers are exact rationals.           *)
(***************************************************************************)
FloatArg(q) == [form |-> "float", val |-> q]
SeqArg(s) == [form |-> "seq", val |-> s]
IntArg(q) == [form |-> "int", val |-> q]

\* int(q): the whole part, rounded towards zero
Trunc(q) == IF q[1] >= 0 THEN q[1] \div q[2] ELSE -((-q[1]) \div q[2])

\* lines 84-100: <<deg, min, sec>>, or None where 'Bad DMS value' is raised
DmsSplit(d) ==
  IF d.form = "float" THEN
    LET deg == Q(Trunc(d.val))
        x == Mul(RAbs(Sub(d.val, deg)), Q(100))
        min == Q(Trunc(x))
    IN  <<deg, min, Mul(Sub(x, min), Q(100))>>
  ELSE IF d.form = "seq" /\ Len(d.val) = 3 THEN d.val
  ELSE IF d.form = "seq" /\ Len(d.val) = 2 THEN
    LET min == d.val[2]
    IN  <<d.val[1], Q(Trunc(min)), Mul(Sub(min, Q(Trunc(min))), Q(60))>>
  ELSE None

DmsRaised(msg) == [err |-> "ValueError", msg |-> msg, val |-> None]

\* not the program: the fraction added whatever the sign of deg
DmsDecimalAdded(deg, min, sec) == Add(deg, Add(Div(min, Q(60)), Div(sec, Q(3600))))

\* lines 111-112: min/60 + sec/3600, taken from deg when deg < 0, added otherwise
DmsDecimal(deg, min, sec) ==
  LET decimal == Add(Div(min, Q(60)), Div(sec, Q(3600)))
  IN  IF Less(deg, Zero) THEN Sub(deg, decimal) ELSE Add(deg, decimal)

\* not the program: 60 itself let through (> for >=)
dms_degrees_inclusive(d) ==
  LET p == DmsSplit(d)
  IN  IF p = None THEN DmsRaised("Bad DMS value")
      ELSE IF Less(p[2], Zero) \/ Less(p[3], Zero) THEN DmsRaised("Negative min/sec value")
      ELSE IF Less(Q(60), p[2]) \/ Less(Q(60), p[3]) THEN DmsRaised("Bad min/sec value")
      ELSE IF p[1] # Q(Trunc(p[1])) \/ p[2] # Q(Trunc(p[2])) THEN DmsRaised("Non-integer deg/min")
      ELSE [err |-> NoErr, msg |-> "", val |-> DmsDecimal(p[1], p[2], p[3])]

\* not the program: the test for whole degrees and minutes left out
dms_degrees_fractional(d) ==
  LET p == DmsSplit(d)
  IN  IF p = None THEN DmsRaised("Bad DMS value")
      ELSE IF Less(p[2], Zero) \/ Less(p[3], Zero) THEN DmsRaised("Negative min/sec value")
      ELSE IF ~Less(p[2], Q(60)) \/ ~Less(p[3], Q(60)) THEN DmsRaised("Bad min/sec value")
      ELSE [err |-> NoErr, msg |-> "", val |-> DmsDecimal(p[1], p[2], p[3])]

\* lines 102-114
dms_degrees(d) ==
  LET p == DmsSplit(d)
  IN  IF p = None THEN DmsRaised("Bad DMS value")
      ELSE IF Less(p[2], Zero) \/ Less(p[3], Zero) THEN DmsRaised("Negative min/sec value")
      ELSE IF ~Less(p[2], Q(60)) \/ ~Less(p[3], Q(60)) THEN DmsRaised("Bad min/sec value")
      ELSE IF p[1] # Q(Trunc(p[1])) \/ p[2] # Q(Trunc(p[2])) THEN DmsRaised("Non-integer deg/min")
      ELSE [err |-> NoErr, msg |-> "", val |-> DmsDecimal(p[1], p[2], p[3])]

(***************************************************************************)
(* The state: the arguments of a call of calculate_transform, the          *)
(* Transform object xfm, a second Transform object fresh (the one created  *)
(* by Transform() to load a file into), the last operation called and the  *)
(* exception it raised, the error report, the point handed through forward *)
(* and inverse with the calls it went through, and the parameter file.     *)
(***************************************************************************)
VARIABLES links, weights, rotate, scale, xfm, fresh, op, err, report, pt0, pt, trail, ret,
          file, dms, angle, rot_text, scale_text, pc

vars == <<links, weights, rotate, scale, xfm, fresh, op, err, report, pt0, pt, trail, ret,
          file, dms, angle, rot_text, scale_text, pc>>
args == <<links, weights, rotate, scale>>
\* the point of forward and inverse, and what translation, rotation or scale returned
point == <<pt0, pt, trail, ret>>
\* the argument and the result of dms_degrees; the rotation and scale texts of the
\* Calculate Transform tool and the place the tool has reached
tool == <<dms, angle, rot_text, scale_text, pc>>

(***************************************************************************)
(* The inputs: points with integer coordinates in 0..MaxCoord, up to       *)
(* MaxLinks links, weights in 0..MaxWeight, exact rotations and scales.    *)
(***************************************************************************)
GridPts == (0..MaxCoord) \X (0..MaxCoord)
\* dtype=np.float64
ToPoint(g) == <<Q(g[1]), Q(g[2])>>
LexLeq(g, h) == g[1] < h[1] \/ (g[1] = h[1] /\ g[2] <= h[2])
Name(i) == ToString(i)
Rotations == {Q(90)}
Scales == {Q(1), Q(2)}

\* the single link of the specification's example: (0, 0) -> (10, 5)
ExampleLinks == <<<<"A", ToPoint(<<0, 0>>), ToPoint(<<10, 5>>)>>>>

\* the link lists of n links.  A permutation of the links with their weights
\* changes no sum the estimator forms, so the sources are taken in increasing
\* order; they are pairwise distinct, or all the same point.
LinkLists(n) ==
  {[i \in 1..n |-> <<Name(i), ToPoint(f[i][1]), ToPoint(f[i][2])>>] :
     f \in {g \in [1..n -> GridPts \X GridPts] :
              \/ \A i \in 1..(n - 1) : g[i][1] # g[i + 1][1] /\ LexLeq(g[i][1], g[i + 1][1])
              \/ \A i \in 1..(n - 1) : g[i][1] = g[i + 1][1]}}


\* no weights, one weight per link, or (a caller's mistake) one weight too many
WeightLists(n) ==
  {None}
    \cup {[i \in 1..n |-> <<Name(i), Q(f[i])>>] : f \in [1..n -> 0..MaxWeight]}
    \cup {[i \in 1..(n + 1) |-> <<Name(i), One>>]}

\* the inputs on which every square root of the SVD strategy is rational
ExactInput(l, w, r, s) ==
  LET n == Len(l)
      wv == WeightValues(l, w)
  IN  (/\ n > 0
       /\ w # None => Len(w) = n
       /\ ~AverageRaises(wv)
       /\ TransformType(n, r, s) = "SVD")
      => SvdExact(CrossCovariance(SrcOf(l), DstOf(l), wv,
                                  Average(SrcOf(l), wv), Average(DstOf(l), wv)))

NoCall ==
  /\ op = ""
  /\ err = NoErr
  /\ report = None
  /\ pt0 = None
  /\ pt = None
  /\ trail = <<>>
  /\ ret = None
  /\ file = None
  /\ fresh = None

\* dms_degrees and the tool are not in use
NoTool ==
  /\ dms = None
  /\ angle = None
  /\ rot_text = None
  /\ scale_text = None
  /\ pc = ""

\* before a call of calculate_transform: links on the grid, or the example
\* estimate([("A", (0, 0), (10, 5))], rotation=0, scale=1)
Init ==
  /\ \/ /\ \E n \in 0..MaxLinks :
             /\ links \in LinkLists(n)
             /\ weights \in WeightLists(n)
        /\ rotate \in {None} \cup Rotations
        /\ scale \in {None} \cup Scales
        /\ ExactInput(links, weights, rotate, scale)
     \/ /\ links = ExampleLinks
        /\ weights = None
        /\ rotate = Q(0)
        /\ scale = Q(1)
  /\ xfm = None
  /\ NoCall
  /\ NoTool

\* xfm = calculate_transform(links, weights, rotate, scale)
CalculateTransform ==
  /\ op = ""
  /\ xfm = None
  /\ \E o \in calculate_transform(links, weights, rotate, scale) :
       /\ xfm' = o.xfm
       /\ err' = o.err
  /\ op' = "calculate_transform"
  /\ UNCHANGED <<tool, args, fresh, report, point, file>>

\* link_errors, rms_error = calculate_errors(xfm, links)
CalculateErrors ==
  /\ xfm # None
  /\ links # <<>>
  /\ report = None
  /\ report' = calculate_errors(xfm, links)
  /\ op' = "calculate_errors"
  /\ err' = NoErr
  /\ UNCHANGED <<tool, args, xfm, fresh, point, file>>

Next == CalculateTransform \/ CalculateErrors

Spec == Init /\ [][Next]_vars

(***************************************************************************)
(* calculate_transform with two links or more.  With the links and weights *)
(* shifted together no difference the estimator forms changes, so the      *)
(* first source is the origin; with three links the first target is one of *)
(* two points.                                                             *)
(***************************************************************************)
InitEst ==
  /\ \E n \in 2..MaxLinks :
       /\ links \in LinkLists(n)
       /\ weights \in WeightLists(n)
       /\ links[1][2] = ToPoint(<<0, 0>>)
       /\ n > 2 => links[1][3] \in {ToPoint(<<0, 0>>), ToPoint(<<1, 0>>)}
  /\ rotate \in {None} \cup Rotations
  /\ scale \in {None} \cup Scales
  /\ ExactInput(links, weights, rotate, scale)
  /\ xfm = None
  /\ NoCall
  /\ NoTool

SpecEst == InitEst /\ [][CalculateTransform]_vars

(***************************************************************************)
(* calculate_errors on its own: any Transform, with links it need not fit. *)
(***************************************************************************)
\* two links that the shift by (3, 0) leaves with the residuals 3 and 4
ResidualLinks == <<<<"A", <<Q(0), Q(0)>>, <<Q(0), Q(0)>>>>, <<"B", <<Q(0), Q(0)>>, <<Q(7), Q(0)>>>>>>

ErrTransforms ==
  {NewTransform(Similarity(a1, b1), t) :
     a1 \in {Zero, One, Rat(-1, 2)}, b1 \in {Zero, One, Rat(-1, 2)},
     t \in {Zeros2, <<One, Zero>>, <<Q(3), Zero>>, <<One, Rat(-1, 2)>>}}

InitErr ==
  /\ xfm \in ErrTransforms
  /\ links \in LinkLists(1) \cup LinkLists(2) \cup {ResidualLinks}
  /\ weights = None
  /\ rotate = None
  /\ scale = None
  /\ NoCall
  /\ NoTool

SpecErr == InitErr /\ [][CalculateErrors]_vars

(***************************************************************************)
(* The Transform object on its own: a Transform(R, t) with given           *)
(* parameters, then forward, inverse, save, Transform() and load.          *)
(***************************************************************************)
MaxCalls == 2
MaxNum == 3

\* doubles: the multiples of 1/2 up to MaxNum/2 in size
ParamVals == {Rat(k, 2) : k \in (-MaxNum)..MaxNum}
\* the last shift is of two doubles with a long decimal expansion, 0.109375 and -0.140625
Shifts == {<<Zero, Zero>>, <<One, Rat(-1, 2)>>, <<Rat(7, 64), Rat(-9, 64)>>}
QueryPts == {<<Zero, Zero>>, <<One, Q(2)>>}
Timestamps == {"Sun Nov  1 10:28:00 2026", "Mon Nov  2 09:00:00 2026"}

\* Transform(R, t) for a similarity matrix R, or for one matrix that is not one
InitXfm ==
  /\ \E a1 \in ParamVals, b1 \in ParamVals, t \in Shifts :
       xfm \in {NewTransform(Similarity(a1, b1), t),
                NewTransform(<<<<a1, b1>>, <<b1, a1>>>>, t)}
  /\ links = <<>>
  /\ weights = None
  /\ rotate = None
  /\ scale = None
  /\ NoCall
  /\ NoTool

\* not the program: an inverse that answers the origin where R has no inverse
InverseCallLenient(x, p) ==
  IF InverseRaises(x) THEN [err |-> NoErr, pt |-> Zeros2]
  ELSE [err |-> NoErr, pt |-> Inverse(x, p)]

\* the outcome [err, pt] of x.forward(p) and of x.inverse(p)
ForwardCall(x, p) == [err |-> NoErr, pt |-> Forward(x, p)]
InverseCall(x, p) ==
  IF InverseRaises(x) THEN [err |-> "LinAlgError", pt |-> p]
  ELSE [err |-> NoErr, pt |-> Inverse(x, p)]

\* not the program: the result is added into self.t (t += R.dot(pt))
PointCallInPlace(name, p, o) ==
  /\ op' = name
  /\ err' = o.err
  /\ IF o.err = NoErr
       THEN /\ pt0' = IF pt0 = None THEN p ELSE pt0
            /\ pt' = o.pt
            /\ trail' = Append(trail, name)
            /\ xfm' = [xfm EXCEPT !.t = o.pt]
            /\ UNCHANGED ret
       ELSE UNCHANGED <<point, xfm>>
  /\ UNCHANGED <<tool, args, fresh, report, file>>

\* a call on the point p: a new point at first, the result of the last call after
PointCall(name, p, o) ==
  /\ op' = name
  /\ err' = o.err
  /\ IF o.err = NoErr
       THEN /\ pt0' = IF pt0 = None THEN p ELSE pt0
            /\ pt' = o.pt
            /\ trail' = Append(trail, name)
            /\ UNCHANGED ret
       ELSE UNCHANGED point
  /\ UNCHANGED <<tool, args, xfm, fresh, report, file>>

PointArgs == IF pt0 = None THEN QueryPts ELSE {pt}

DoForward ==
  /\ Len(trail) < MaxCalls
  /\ \E p \in PointArgs : PointCall("forward", p, ForwardCall(xfm, p))

DoInverse ==
  /\ Len(trail) < MaxCalls
  /\ \E p \in PointArgs : PointCall("inverse", p, InverseCall(xfm, p))

\* xfm.save(PARAMS)
DoSave ==
  /\ file = None
  /\ \E now \in Timestamps : file' = Save(xfm, now)
  /\ op' = "save"
  /\ err' = NoErr
  /\ UNCHANGED <<tool, args, xfm, fresh, report, point>>

\* Transform()
DoConstruct ==
  /\ fresh = None
  /\ fresh' = NewTransform(None, None)
  /\ op' = "Transform"
  /\ err' = NoErr
  /\ UNCHANGED <<tool, args, xfm, report, point, file>>

\* fresh.load(PARAMS)
DoLoad ==
  /\ fresh # None
  /\ file # None
  /\ op # "load"
  /\ LET o == Load(fresh, file)
     IN  fresh' = o.xfm /\ err' = o.err
  /\ op' = "load"
  /\ UNCHANGED <<tool, args, xfm, report, point, file>>

(***************************************************************************)
(* dms_degrees on its own.                                                 *)
(***************************************************************************)
\* degrees, minutes and seconds, in and out of range, whole and not; the packed
\* 123.45, -123.45, 123.4530, 123.60, 123.4560, 123.4575, -1.0627, 0.0, -0.30, 59.5959
DmsInputs ==
  LET Degs == {Q(-123), Q(-1), Zero, Q(123), Rat(985, 8)}
      Mins == {Q(-1), Rat(-1, 2), Zero, Q(6), Q(45), Rat(91, 2), Q(59), Q(60), Rat(241, 4)}
      Secs == {Q(-1), Zero, Q(27), Rat(3001, 100), Rat(119, 2), Q(60)}
      PackedFloats ==
        {Rat(12345, 100), Rat(-12345, 100), Rat(123453, 1000), Rat(1236, 10),
         Rat(123456, 1000), Rat(1234575, 10000), Rat(-10627, 10000), Zero, Rat(-3, 10),
         Rat(595959, 10000)}
  IN  {FloatArg(v) : v \in PackedFloats}
        \cup {SeqArg(<<d, m, sec>>) : d \in Degs, m \in Mins, sec \in Secs}
        \cup {SeqArg(<<d, m>>) : d \in Degs, m \in Mins}
        \cup {SeqArg(<<Q(123)>>), SeqArg(<<Q(123), Q(45), Zero, Zero>>), IntArg(Q(123))}

InitDms ==
  /\ dms \in DmsInputs
  /\ angle = None
  /\ rot_text = None
  /\ scale_text = None
  /\ pc = ""
  /\ links = <<>>
  /\ weights = None
  /\ rotate = None
  /\ scale = None
  /\ xfm = None
  /\ NoCall

\* angle = dms_degrees(dms)
DmsDegrees ==
  /\ op = ""
  /\ angle' = dms_degrees(dms).val
  /\ err' = dms_degrees(dms).err
  /\ op' = "dms_degrees"
  /\ UNCHANGED <<args, xfm, fresh, report, point, file, dms, rot_text, scale_text, pc>>

SpecDms == InitDms /\ [][DmsDegrees]_vars

(***************************************************************************)
(* The Calculate Transform tool (calculate_transform.py) from the point    *)
(* where links and weights are built, followed by the Transform() and      *)
(* load of the Transform Features tool.  A text is None or [tokens |-> s], *)
(* s the whitespace-separated tokens; a token is the text of a whole       *)
(* number, of a number with a decimal point, or of no number.              *)
(***************************************************************************)
IntTok(i) == [kind |-> "int", val |-> Q(i)]
DecTok(q) == [kind |-> "dec", val |-> q]
WordTok == [kind |-> "word", val |-> Zero]
Text(s) == [tokens |-> s]

\* int(token) and float(token) raise ValueError
IntRaises(tok) == tok.kind # "int"
FloatRaises(tok) == tok.kind = "word"

BadValue == [err |-> "ValueError", val |-> None]
\* dec = utils.dms_degrees(...) inside the try
DmsOutcome(d) ==
  IF dms_degrees(d).err # NoErr THEN BadValue
  ELSE [err |-> NoErr, val |-> dms_degrees(d).val]

\* lines 49-62: the outcome [err, val] of the try block.  With one token the
\* call float(dms) is given the list of tokens and raises TypeError.
ParseRotation(text) ==
  LET t == text.tokens
  IN  IF Len(t) = 3 THEN
        IF IntRaises(t[1]) \/ IntRaises(t[2]) \/ FloatRaises(t[3]) THEN BadValue
        ELSE DmsOutcome(SeqArg(<<t[1].val, t[2].val, t[3].val>>))
      ELSE IF Len(t) = 2 THEN
        IF IntRaises(t[1]) \/ FloatRaises(t[2]) THEN BadValue
        ELSE DmsOutcome(SeqArg(<<t[1].val, t[2].val>>))
      ELSE IF Len(t) = 1 THEN [err |-> "TypeError", val |-> None]
      ELSE BadValue

\* lines 67-72
ParseScale(text) ==
  IF FloatRaises(text.tokens[1]) THEN BadValue
  ELSE [err |-> NoErr, val |-> text.tokens[1].val]

\* the rotation texts: none, blank, '90', '90.0', '90 0', '-90 0.0', '180 0 0',
\* '0 0 0.0', '90 60.25', '90 0 60', '90.5 0 0', '90 abc', '90 0 0 0'
RotationTexts ==
  {None} \cup {Text(s) : s \in
     {<<>>, <<IntTok(90)>>, <<DecTok(Q(90))>>, <<IntTok(90), IntTok(0)>>,
      <<IntTok(-90), DecTok(Zero)>>, <<IntTok(180), IntTok(0), IntTok(0)>>,
      <<IntTok(0), IntTok(0), DecTok(Zero)>>, <<IntTok(90), DecTok(Rat(241, 4))>>,
      <<IntTok(90), IntTok(0), IntTok(60)>>, <<DecTok(Rat(181, 2)), IntTok(0), IntTok(0)>>,
      <<IntTok(90), WordTok>>, <<IntTok(90), IntTok(0), IntTok(0), IntTok(0)>>}}
\* the scale texts: none, '2', '0.5', 'abc'
ScaleTexts == {None} \cup {Text(<<t>>) : t \in {IntTok(2), DecTok(Rat(1, 2)), WordTok}}

\* links as the tool builds them: none, one, two that fit a quarter turn, two
\* from one source, three mirrored, three that fit nothing
ToolLinks ==
  LET P(x, y) == <<Q(x), Q(y)>>
  IN  {<<>>,
       <<<<"1", P(1, 1), P(0, 1)>>>>,
       <<<<"1", P(0, 0), P(1, 0)>>, <<"2", P(1, 0), P(1, 1)>>>>,
       <<<<"1", P(0, 0), P(1, 0)>>, <<"2", P(0, 0), P(0, 1)>>>>,
       <<<<"1", P(0, 0), P(0, 0)>>, <<"2", P(1, 0), P(1, 0)>>, <<"3", P(0, 1), P(0, -1)>>>>,
       <<<<"1", P(0, 0), P(0, 0)>>, <<"2", P(1, 0), P(1, 1)>>, <<"3", P(0, 1), P(-1, 0)>>>>}
\* weights.append([name, weight]) for every link: all 1, all 0, or 1, 2, 3
ToolWeights(l) ==
  {Array([i \in 1..Len(l) |-> <<l[i][1], One>>]),
   Array([i \in 1..Len(l) |-> <<l[i][1], Zero>>]),
   Array([i \in 1..Len(l) |-> <<l[i][1], Q(i)>>])}

InitTool ==
  /\ links \in ToolLinks
  /\ weights \in ToolWeights(links)
  /\ ExactInput(links, weights, None, One)
  /\ rot_text \in RotationTexts
  /\ scale_text \in ScaleTexts
  /\ rotate = None
  /\ scale = None
  /\ xfm = None
  /\ NoCall
  /\ dms = None
  /\ angle = None
  /\ pc = "rotation"

\* arcpy.AddError(message); exit(-1)
ToolExit(message) ==
  /\ pc' = "exit"
  /\ err' = message
\* an exception nothing catches ends the tool
ToolCrash(exception) ==
  /\ pc' = "crash"
  /\ err' = exception

\* lines 49-65
ToolRotation ==
  /\ pc = "rotation"
  /\ op' = "rotation"
  /\ IF rot_text = None THEN pc' = "scale" /\ UNCHANGED <<rotate, err>>
     ELSE LET o == ParseRotation(rot_text)
          IN  IF o.err = NoErr THEN rotate' = o.val /\ pc' = "scale" /\ UNCHANGED err
              ELSE /\ IF o.err = "ValueError" THEN ToolExit("Bad rotation value")
                      ELSE ToolCrash(o.err)
                   /\ UNCHANGED rotate
  /\ UNCHANGED <<links, weights, scale, xfm, fresh, report, point, file,
                 dms, angle, rot_text, scale_text>>

\* lines 67-72
ToolScale ==
  /\ pc = "scale"
  /\ op' = "scale"
  /\ IF scale_text = None THEN pc' = "estimate" /\ UNCHANGED <<scale, err>>
     ELSE LET o == ParseScale(scale_text)
          IN  IF o.err = NoErr THEN scale' = o.val /\ pc' = "estimate" /\ UNCHANGED err
              ELSE ToolExit("Bad scale value") /\ UNCHANGED scale
  /\ UNCHANGED <<links, weights, rotate, xfm, fresh, report, point, file,
                 dms, angle, rot_text, scale_text>>

\* line 79: xfm = transform.calculate_transform(links, weights=weights, ...)
ToolEstimate ==
  /\ pc = "estimate"
  /\ op' = "calculate_transform"
  /\ \E o \in calculate_transform(links, weights, rotate, scale) :
       IF o.err = NoErr THEN xfm' = o.xfm /\ pc' = "save" /\ UNCHANGED err
       ELSE ToolCrash(o.err) /\ UNCHANGED xfm
  /\ UNCHANGED <<args, fresh, report, point, file, dms, angle, rot_text, scale_text>>

\* line 80: xfm.save(param_file)
ToolSave ==
  /\ pc = "save"
  /\ op' = "save"
  /\ \E now \in Timestamps : file' = Save(xfm, now)
  /\ pc' = "report"
  /\ UNCHANGED <<args, xfm, fresh, err, report, point, dms, angle, rot_text, scale_text>>

\* lines 82-95
ToolReport ==
  /\ pc = "report"
  /\ op' = "calculate_errors"
  /\ report' = IF Len(links) > 1 THEN calculate_errors(xfm, links) ELSE None
  /\ pc' = "done"
  /\ UNCHANGED <<args, xfm, fresh, err, point, file, dms, angle, rot_text, scale_text>>

NextTool ==
  ToolRotation \/ ToolScale \/ ToolEstimate \/ ToolSave \/ ToolReport \/ DoConstruct \/ DoLoad

SpecTool == InitTool /\ [][NextTool]_vars

(***************************************************************************)
(* Parameter files from elsewhere: a Transform saves its file or a file    *)
(* written by hand is found, and a Transform() loads it.                   *)
(***************************************************************************)
\* the text of a number
Num(q) == FormatE(q, FmtDigits)
Remark == CommentLine("Similarity transform paramerters a0, b0, a1, b1")
\* hand-written files: four values on one line, two by two, one by one with a
\* remark between, then three values, five values, a word among four values,
\* rows of different lengths, remarks only, and nothing at all
HandFiles ==
  LET a0 == Num(Q(2))
      b0 == Num(Rat(-3, 2))
      a1 == Num(Rat(1, 2))
      b1 == Num(Q(-1))
  IN  {[lines |-> l] : l \in
         {<<Remark, DataLine(<<a0, b0, a1, b1>>)>>,
          <<DataLine(<<a0, b0>>), DataLine(<<a1, b1>>)>>,
          <<DataLine(<<a0>>), DataLine(<<b0>>), Remark, DataLine(<<a1>>), DataLine(<<b1>>)>>,
          <<Remark, DataLine(<<a0, b0, a1>>)>>,
          <<Remark, DataLine(<<a0, b0, a1, b1, a0>>)>>,
          <<DataLine(<<a0>>), DataLine(<<b0>>), DataLine(<<a1>>), DataLine(<<b1>>),
            DataLine(<<a0>>), DataLine(<<b0>>)>>,
          <<Remark, DataLine(<<a0, b0, Word("abc"), b1>>)>>,
          <<DataLine(<<a0>>), DataLine(<<b0, a1, b1>>)>>,
          <<Remark, Remark>>,
          <<>>}}

\* a file written by hand takes the place of PARAMS
DoWrite ==
  /\ file = None
  /\ file' \in HandFiles
  /\ op' = "write"
  /\ err' = NoErr
  /\ UNCHANGED <<tool, args, xfm, fresh, report, point>>

NextFile == DoSave \/ DoWrite \/ DoConstruct \/ DoLoad

SpecFile == InitXfm /\ [][NextFile]_vars

(***************************************************************************)
(* The methods of one Transform, and calculate_errors, called in any       *)
(* order; load is called on that Transform itself, with a file it saved or *)
(* a file written by hand.                                                 *)
(***************************************************************************)
InitObj ==
  /\ \E ab \in {<<Rat(3, 2), Rat(-1, 2)>>, <<Zero, Q(2)>>, <<One, One>>, <<Zero, Zero>>} :
       xfm = NewTransform(Similarity(ab[1], ab[2]), <<One, Rat(-1, 2)>>)
  /\ links = ResidualLinks
  /\ weights = None
  /\ rotate = None
  /\ scale = None
  /\ NoCall
  /\ NoTool

\* ret = xfm.translation()
DoTranslation ==
  /\ ret' = Translation(xfm)
  /\ op' = "translation"
  /\ err' = NoErr
  /\ UNCHANGED <<tool, args, xfm, fresh, report, pt0, pt, trail, file>>

\* ret = xfm.rotation()
DoRotation ==
  /\ ret' = Rotation(xfm)
  /\ op' = "rotation"
  /\ err' = NoErr
  /\ UNCHANGED <<tool, args, xfm, fresh, report, pt0, pt, trail, file>>

\* ret = xfm.scale()
DoScale ==
  /\ ret' = Scale(xfm)
  /\ op' = "scale"
  /\ err' = NoErr
  /\ UNCHANGED <<tool, args, xfm, fresh, report, pt0, pt, trail, file>>

\* xfm.load(PARAMS)
DoReload ==
  /\ file # None
  /\ op # "load"
  /\ LET o == Load(xfm, file)
     IN  xfm' = o.xfm /\ err' = o.err
  /\ op' = "load"
  /\ UNCHANGED <<tool, args, fresh, report, point, file>>

NextObj ==
  \/ DoTranslation
  \/ DoRotation
  \/ DoScale
  \/ DoForward
  \/ DoInverse
  \/ DoSave
  \/ DoWrite
  \/ CalculateErrors
  \/ DoReload

SpecObj == InitObj /\ [][NextObj]_vars

NextXfm == DoForward \/ DoInverse \/ DoSave \/ DoConstruct \/ DoLoad

SpecXfm == InitXfm /\ [][NextXfm]_vars

(***************************************************************************)
(* Properties of calculate_transform, checked under Spec.                  *)
(***************************************************************************)
Estimated == op # "" /\ xfm # None
\* the call passed the checks before the strategy is chosen
Accepted ==
  /\ Len(links) > 0
  /\ weights # None => Len(weights) = Len(links)
  /\ ~AverageRaises(WeightValues(links, weights))
Called == op # ""
Tags == {"Rotate/Scale/Translate", "SVD", "Conformal"}

\* C1: the tag of a returned Transform is decided by the number of links and by
\* which of rotate and scale are None, in priority order: Rotate/Scale/Translate
\* iff n = 1 or rotate is given; SVD iff n >= 2, rotate is None and scale is given;
\* Conformal iff n >= 2 and both are None.  It is one of the three tags.
C1_StrategyTag ==
  Estimated =>
    LET n == Len(links)
        tag == xfm.transform_type
    IN  /\ tag \in Tags
        /\ tag = "Rotate/Scale/Translate" <=> (n = 1 \/ rotate # None)
        /\ tag = "SVD" <=> (n >= 2 /\ rotate = None /\ scale # None)
        /\ tag = "Conformal" <=> (n >= 2 /\ rotate = None /\ scale = None)

\* C1 witness: three links and a scale but no rotation give an SVD Transform
C1_Witness ==
  Estimated /\ Len(links) = 3 /\ rotate = None /\ scale # None /\ xfm.transform_type = "SVD"

\* the sum of w_i * (forward(source_i) - target_i) over the links: it is zero
\* exactly when forward maps the weighted centroid of the sources to that of the targets
WeightedMisfit(x, l, w) ==
  LET wv == WeightValues(l, w)
      Part(k) == SumSeq(Array([i \in 1..Len(l) |->
                   Mul(wv[i], Sub(Forward(x, l[i][2])[k], l[i][3][k]))]))
  IN  <<Part(1), Part(2)>>

\* C2: in the Rotate/Scale/Translate strategy a missing rotation counts as 0 and a
\* missing scale as 1, R = [[a1, -b1], [b1, a1]] with a1 = scale * cos(rotate) and
\* b1 = scale * sin(rotate), whatever the links and weights, and
\* t = centroid_dst - R * centroid_src.
C2_RotateScaleTranslate ==
  (Estimated /\ xfm.transform_type = "Rotate/Scale/Translate") =>
    LET r == IF rotate = None THEN Q(0) ELSE rotate
        k == IF scale = None THEN Q(1) ELSE scale
        a1 == Mul(k, CosDeg(r))
        b1 == Mul(k, SinDeg(r))
    IN  /\ xfm.R = <<<<a1, Neg(b1)>>, <<b1, a1>>>>
        /\ WeightedMisfit(xfm, links, weights) = <<Zero, Zero>>

\* C2 witness: two links with different weights, a rotation of 90 degrees, scale 2
\* and a translation that is not zero
C2_Witness ==
  /\ Estimated
  /\ Len(links) = 2
  /\ weights # None
  /\ weights[1][2] # weights[2][2]
  /\ rotate = Q(90)
  /\ scale = Q(2)
  /\ xfm.t # Zeros2
  /\ links[1][2] # links[2][2]

\* C3: with exactly one link the returned Transform maps the source of the link
\* onto its target, for every rotate and scale, and calculate_errors reports the
\* residual 0; for the link (0, 0) -> (10, 5), rotate 0 and scale 1 the result is
\* t = (10, 5) and R the identity.
C3_SingleLinkExact ==
  (Estimated /\ Len(links) = 1) =>
    /\ Forward(xfm, links[1][2]) = links[1][3]
    /\ report # None => report.link_errors[1][2] = Surd(Zero)
    /\ (links = ExampleLinks /\ rotate = Q(0) /\ scale = Q(1)) =>
         (xfm.t = <<Q(10), Q(5)>> /\ xfm.R = Identity2)

\* C3 witness: the residual of one link away from the origin is reported, under a
\* rotation of 90 degrees and scale 2
C3_Witness ==
  /\ Estimated
  /\ Len(links) = 1
  /\ links[1][2] = <<One, One>>
  /\ rotate = Q(90)
  /\ scale = Q(2)
  /\ report # None

\* the targets are the sources under the orthogonal matrix F and a translation
ImageUnder(F, l) ==
  \A i \in 1..Len(l) :
    VSub(l[i][3], MatVec(F, l[i][2])) = VSub(l[1][3], MatVec(F, l[1][2]))
Reflections == {F \in SignedPermutations : Det(F) = Q(-1)}
\* the targets are a mirror image of sources that do not lie on one line
MirrorImage(l) == ~Collinear(SrcOf(l)) /\ \E F \in Reflections : ImageUnder(F, l)
PositiveWeights == \A i \in 1..Len(links) : Less(Zero, WeightValues(links, weights)[i])

\* C4: in the SVD strategy the call ends with a Transform or with
\* MirroredTransformError and no Transform; targets that are a mirror image of the
\* sources always end with the error; no Transform returned by the strategy
\* has det(R) < 0.
C4_ReflectionDetected ==
  (Called /\ Accepted /\ TransformType(Len(links), rotate, scale) = "SVD") =>
    /\ \/ err = NoErr /\ xfm # None
       \/ err = "MirroredTransformError" /\ xfm = None
    /\ (PositiveWeights /\ MirrorImage(links)) => err = "MirroredTransformError"
    /\ xfm # None => ~Less(Det(xfm.R), Zero)

\* C4 witness: three links whose targets mirror the sources end with the error
C4_Witness ==
  /\ Called
  /\ Len(links) = 3
  /\ PositiveWeights
  /\ MirrorImage(links)
  /\ rotate = None
  /\ scale = Q(1)
  /\ err = "MirroredTransformError"
  /\ xfm = None

Halves == {Rat(k, 2) : k \in -2..2}
\* every target is t0 + [[a, -b], [b, a]] * source, t0 fixed by the first link
FitsSimilarity(a, b, l) ==
  \A i \in 1..Len(l) :
    VSub(l[i][3], MatVec(Similarity(a, b), l[i][2]))
      = VSub(l[1][3], MatVec(Similarity(a, b), l[1][2]))
DistinctSources(l) == \E i, j \in 1..Len(l) : l[i][2] # l[j][2]

\* C5: in the Conformal strategy, links that all satisfy target = t0 + R0 * source
\* for one similarity R0 = [[a, -b], [b, a]] that is not zero, with two distinct
\* sources and positive weights, give back (a0, b0, a1, b1) = (t0.x, t0.y, a, b),
\* and every residual and the RMS error are 0.
C5_ConformalRecovery ==
  (Called /\ Accepted /\ TransformType(Len(links), rotate, scale) = "Conformal"
     /\ PositiveWeights /\ DistinctSources(links)) =>
    \A a \in Halves, b \in Halves :
      (~(IsZero(a) /\ IsZero(b)) /\ FitsSimilarity(a, b, links)) =>
        /\ err = NoErr
        /\ xfm # None
        /\ xfm.R = Similarity(a, b)
        /\ xfm.t = VSub(links[1][3], MatVec(Similarity(a, b), links[1][2]))
        /\ report # None =>
             /\ \A i \in 1..Len(links) : report.link_errors[i][2] = Surd(Zero)
             /\ report.rms = Surd(Zero)

\* C5 witness: three links under a rotation of 90 degrees and the translation
\* (1, 0), with their report
C5_Witness ==
  /\ Len(links) = 3
  /\ rotate = None
  /\ scale = None
  /\ PositiveWeights
  /\ ~Collinear(SrcOf(links))
  /\ FitsSimilarity(Zero, One, links)
  /\ xfm # None
  /\ xfm.t = <<One, Zero>>
  /\ report # None

\* the sources that count: those of the links with a weight that is not zero
WeightedSources(l, w) ==
  {l[i][2] : i \in {j \in 1..Len(l) : ~IsZero(WeightValues(l, w)[j])}}
ConformalCall ==
  Called /\ Accepted /\ TransformType(Len(links), rotate, scale) = "Conformal"

\* C6: in the Conformal strategy with weights that are not negative the call
\* fails with LinAlgError (from npla.inv of a singular A.T.W.A), and returns no
\* Transform, exactly when the sources of the links with non-zero weight are all
\* one point; sources that lie on one line but are not all the same point give a
\* Transform.
C6_CoincidentSingular ==
  ConformalCall =>
    /\ (Cardinality(WeightedSources(links, weights)) = 1) <=> (err = "LinAlgError")
    /\ err = "LinAlgError" => xfm = None
    /\ err # "LinAlgError" => (err = NoErr /\ xfm # None)

\* C6 witness: three links with positive weights from one source point fail
C6_Witness ==
  /\ ConformalCall
  /\ Len(links) = 3
  /\ PositiveWeights
  /\ ~DistinctSources(links)
  /\ err = "LinAlgError"
  /\ xfm = None

\* C6 as stated: the call fails, with no Transform, whenever the sources are
\* all the same point or all on one line
C6_CollinearSingular ==
  (ConformalCall /\ Collinear(SrcOf(links))) => (err = "LinAlgError" /\ xfm = None)

\* C14: calculate_errors(xfm, links) gives one (name, error) entry for each link,
\* in the order of the links: the i-th name is the name of the i-th link and the
\* i-th error the distance from xfm.forward(source_i) to target_i; the call
\* changes neither xfm nor links.
C14_LinkErrors ==
  /\ [](report # None =>
          /\ Len(report.link_errors) = Len(links)
          /\ \A i \in 1..Len(links) :
               LET d == VSub(Forward(xfm, links[i][2]), links[i][3])
               IN  /\ report.link_errors[i][1] = links[i][1]
                   /\ report.link_errors[i][2] = Surd(Add(Mul(d[1], d[1]), Mul(d[2], d[2]))))
  /\ [][op' = "calculate_errors" => (xfm' = xfm /\ links' = links)]_vars

\* C14 witness: the report of two links under a Transform that turns and
\* shifts, the first link met exactly and the second one missed
C14_Witness ==
  /\ report # None
  /\ Len(links) = 2
  /\ ~IsZero(B1(xfm))
  /\ xfm.t # Zeros2
  /\ links[1][2] # links[2][2]
  /\ report.link_errors[1] = <<"1", Surd(Zero)>>
  /\ report.link_errors[2][1] = "2"
  /\ report.link_errors[2][2] # Surd(Zero)

\* the squares of the errors of a report, in order
SquaredErrors(r) == Array([i \in 1..Len(r.link_errors) |-> Squared(r.link_errors[i][2])])

\* C15: the second value of calculate_errors is rms = sqrt(mean(error_i^2)):
\* n * rms^2 is the sum of the squares of the errors of the links; for two links
\* with the residuals 3 and 4, rms^2 = 12.5.
C15_RmsError ==
  report # None =>
    /\ Mul(Q(Len(links)), Squared(report.rms)) = SumSeq(SquaredErrors(report))
    /\ SquaredErrors(report) = <<Q(9), Q(16)>> => report.rms = Surd(Rat(25, 2))

\* C15 witness: the two links with the residuals 3 and 4
C15_Witness ==
  /\ report # None
  /\ links = ResidualLinks
  /\ report.link_errors = <<<<"A", Surd(Q(9))>>, <<"B", Surd(Q(16))>>>>
  /\ report.rms = Surd(Rat(25, 2))

\* a weights list that gives every link the weight 1.0
UnitWeights(l) == Array([i \in 1..Len(l) |-> <<l[i][1], One>>])
Outcome == [err |-> err, xfm |-> xfm]

\* C13: calculate_transform(links, None, rotate, scale) and calculate_transform
\* with a weights list of 1.0 for each link have the same outcomes: the same R,
\* t and tag, or the same exception.  What a call without weights gave is an
\* outcome of the call with unit weights, and the other way round.
C13_DefaultWeights ==
  (op = "calculate_transform" /\ (weights = None \/ weights = UnitWeights(links))) =>
    /\ Outcome \in calculate_transform(links, None, rotate, scale)
    /\ Outcome \in calculate_transform(links, UnitWeights(links), rotate, scale)
    /\ calculate_transform(links, None, rotate, scale)
         = calculate_transform(links, UnitWeights(links), rotate, scale)

\* C13 witness: three links without weights gave a Conformal Transform that
\* fits none of them exactly
C13_Witness ==
  /\ op = "calculate_transform"
  /\ weights = None
  /\ Len(links) = 3
  /\ xfm # None
  /\ xfm.transform_type = "Conformal"
  /\ \A i \in 1..3 : Forward(xfm, links[i][2]) # links[i][3]

\* the weights under names that are no link's, and under the names of the
\* links in reverse order
Unnamed(w) == Array([i \in 1..Len(w) |-> <<"w" \o w[i][1], w[i][2]>>])
Misnamed(w) == Array([i \in 1..Len(w) |-> <<w[Len(w) + 1 - i][1], w[i][2]>>])

\* C22: a call with the same weight values under other names, names of no
\* link or the names of the links in another order, has the same outcomes as
\* the call made: the Transform returned, or the exception raised, is an
\* outcome of either, and the renamed calls raise only where the call does.
C22_WeightsByPosition ==
  (Called /\ weights # None) =>
    LET named == calculate_transform(links, weights, rotate, scale)
        unnamed == calculate_transform(links, Unnamed(weights), rotate, scale)
        misnamed == calculate_transform(links, Misnamed(weights), rotate, scale)
    IN  /\ unnamed = named
        /\ misnamed = named
        /\ Outcome \in unnamed
        /\ Outcome \in misnamed

\* C22 witness: a Transform was returned for three links whose weights differ,
\* so that weights matched by name would have given another one
C22_Witness ==
  /\ Estimated
  /\ Len(links) = 3
  /\ weights # None
  /\ weights[1][2] # weights[3][2]
  /\ Misnamed(weights) # weights
  /\ xfm.transform_type = "Conformal"
  /\ \A o \in calculate_transform(links, Array([i \in 1..3 |-> <<Name(i), weights[4 - i][2]>>]),
                                   rotate, scale) : o.xfm # xfm

\* sum(w_i * p_i) / sum(w_i)
WeightedCentroid(pts, w) ==
  LET Part(k) == SumSeq(Array([i \in 1..Len(pts) |-> Mul(w[i], pts[i][k])]))
  IN  <<Div(Part(1), SumSeq(w)), Div(Part(2), SumSeq(w))>>

\* C23: a Transform returned by calculate_transform, in any of the three
\* strategies, with weights of positive sum, maps the weighted centroid of the
\* sources onto the weighted centroid of the targets.
C23_CentroidMapping ==
  (Estimated /\ Less(Zero, SumSeq(WeightValues(links, weights)))) =>
    /\ xfm.transform_type \in Tags
    /\ Forward(xfm, WeightedCentroid(SrcOf(links), WeightValues(links, weights)))
         = WeightedCentroid(DstOf(links), WeightValues(links, weights))

\* C23 witness: a Conformal Transform for three links of different weights that
\* fits none of them exactly, the centroid of the sources being none of them
C23_Witness ==
  /\ Estimated
  /\ xfm.transform_type = "Conformal"
  /\ Len(links) = 3
  /\ weights # None
  /\ weights[1][2] # weights[2][2]
  /\ PositiveWeights
  /\ \A i \in 1..3 :
       /\ Forward(xfm, links[i][2]) # links[i][3]
       /\ WeightedCentroid(SrcOf(links), WeightValues(links, weights)) # links[i][2]
  /\ Forward(xfm, WeightedCentroid(SrcOf(links), WeightValues(links, weights)))
       = WeightedCentroid(DstOf(links), WeightValues(links, weights))

\* the quarter turns [[c, -s], [s, c]] as pairs (c, s)
QuarterTurns == {<<One, Zero>>, <<Zero, One>>, <<Q(-1), Zero>>, <<Zero, Q(-1)>>}

GivenWeights == IF weights = None THEN UnitWeights(links) ELSE weights
\* one link more, far from the others or on top of one of them
ExtraLinks ==
  {<<"0", <<Q(5), Q(-3)>>, <<Q(-2), Q(7)>>>>, <<"0", <<Zero, Zero>>, <<One, Zero>>>>}
Scaled(w, c) == Array([i \in 1..Len(w) |-> <<w[i][1], Mul(c, w[i][2])>>])

\* C27: for two links or more, the call with one more link of weight 0, whatever
\* its source and target, has the outcomes of the call made: the same tag, R and
\* t, or the same exception; so has the call with every weight multiplied by 3.
C27_ZeroWeightLinks ==
  (Called /\ Len(links) >= 2) =>
    LET made == calculate_transform(links, GivenWeights, rotate, scale)
    IN  /\ Outcome \in made
        /\ \A e \in ExtraLinks :
             calculate_transform(Append(links, e), Append(GivenWeights, <<"0", Zero>>),
                                 rotate, scale) = made
        /\ calculate_transform(links, Scaled(GivenWeights, Q(3)), rotate, scale) = made

\* C27 witness: a Conformal Transform for three links of different weights, which
\* a fourth link on top of the first would change if its weight were 1 and not 0
C27_Witness ==
  /\ Estimated
  /\ Len(links) = 3
  /\ xfm.transform_type = "Conformal"
  /\ weights # None
  /\ Len(weights) = 3
  /\ weights[1][2] # weights[2][2]
  /\ \A o \in calculate_transform(Append(links, <<"0", <<Zero, Zero>>, <<One, Zero>>>>),
                                   Append(weights, <<"0", One>>), rotate, scale) :
       o.xfm # xfm
  /\ xfm \in {o.xfm : o \in calculate_transform(
                     Append(links, <<"0", <<Zero, Zero>>, <<One, Zero>>>>),
                     Append(weights, <<"0", Zero>>), rotate, scale)}

(***************************************************************************)
(* Properties of the Transform object, checked under SpecXfm.              *)
(***************************************************************************)
\* R = [[a1, -b1], [b1, a1]]
IsSimilarity(R) == R = Similarity(R[1][1], R[2][1])
NonZeroScale(R) == ~IsZero(SumSq(R[1][1], R[2][1]))

\* C7: for a Transform with R = [[a1, -b1], [b1, a1]] and a1^2 + b1^2 # 0,
\* inverse(forward(p)) = p and forward(inverse(p)) = p, and neither call fails.
C7_InverseLaw ==
  (IsSimilarity(xfm.R) /\ NonZeroScale(xfm.R)) =>
    /\ op \in {"forward", "inverse"} => err = NoErr
    /\ trail = <<"forward", "inverse">> => pt = pt0
    /\ trail = <<"inverse", "forward">> => pt = pt0

\* C7 witness: a Transform that turns, scales and shifts took a point away from
\* itself and back
C7_Witness ==
  /\ IsSimilarity(xfm.R)
  /\ ~IsZero(B1(xfm))
  /\ xfm.t # Zeros2
  /\ trail = <<"forward", "inverse">>
  /\ pt0 = <<One, Q(2)>>
  /\ Forward(xfm, pt0) # pt0
  /\ pt = pt0

\* C8: inverse on a Transform whose R has no inverse (a1 = b1 = 0 among them)
\* raises LinAlgError, hands back no point, and leaves the Transform as it was.
C8_SingularInverse ==
  [][(op' = "inverse" /\ Singular(xfm.R)) =>
       (err' = "LinAlgError" /\ xfm' = xfm /\ point' = point)]_vars

\* C8 witness: inverse was called on a Transform with R = 0 and raised
C8_Witness ==
  /\ op = "inverse"
  /\ xfm.R = <<Zeros2, Zeros2>>
  /\ xfm.t # Zeros2
  /\ err = "LinAlgError"
  /\ pt = None

\* C9: a Transform with R = [[a1, -b1], [b1, a1]] saved to a file and loaded
\* from it into a fresh Transform() gives the same a0, b0, a1, b1, so that
\* forward and inverse of the two agree on every point.
C9_SaveLoadRoundTrip ==
  (op = "load" /\ IsSimilarity(xfm.R)) =>
    /\ err = NoErr
    /\ <<fresh.t[1], fresh.t[2], A1(fresh), B1(fresh)>>
         = <<xfm.t[1], xfm.t[2], A1(xfm), B1(xfm)>>
    /\ fresh.R = xfm.R
    /\ \A p \in QueryPts :
         /\ ForwardCall(fresh, p) = ForwardCall(xfm, p)
         /\ InverseCall(fresh, p) = InverseCall(xfm, p)

\* C9 witness: a Transform with parameters of long decimal expansion was loaded back
C9_Witness ==
  /\ op = "load"
  /\ err = NoErr
  /\ IsSimilarity(xfm.R)
  /\ A1(xfm) = Rat(3, 2)
  /\ B1(xfm) = Rat(-1, 2)
  /\ xfm.t = <<Rat(7, 64), Rat(-9, 64)>>
  /\ FormatE(xfm.t[1], FmtDigits).digits = 10938
  /\ fresh.R = xfm.R

DataLines(f) == SelectSeq(f.lines, LAMBDA l : l.kind = "data")
CommentLines(f) == SelectSeq(f.lines, LAMBDA l : l.kind = "comment")

\* C10 as stated: the file is two comment lines, the label and the timestamp,
\* and then exactly one data line with the four values a0 b0 a1 b1 in that order
C10_OneDataLine ==
  file # None =>
    /\ Len(file.lines) = 3
    /\ file.lines[1].kind = "comment"
    /\ file.lines[2].kind = "comment"
    /\ file.lines[3].kind = "data"
    /\ Len(file.lines[3].values) = 4
    /\ \A k \in 1..4 :
         ParseFloat(file.lines[3].values[k]) = <<xfm.t[1], xfm.t[2], A1(xfm), B1(xfm)>>[k]

(***************************************************************************)
(* Properties of Transform.load, checked under SpecFile.                   *)
(***************************************************************************)
\* the written values of the lines of file that are not comments, in order
FileValues == Flat(Array([i \in 1..Len(DataLines(file)) |-> DataLines(file)[i].values]))
AllNumeric == \A k \in 1..Len(FileValues) : IsNumeric(FileValues[k])
Rectangular ==
  \A i, j \in 1..Len(DataLines(file)) :
     Len(DataLines(file)[i].values) = Len(DataLines(file)[j].values)

\* C11: load passes over the comment lines; when the values left are not four
\* in number, or one of them is no number, it raises ValueError; when it
\* succeeds the values are four numbers a0, b0, a1, b1 in this order, with
\* t = (a0, b0) and R = [[a1, -b1], [b1, a1]]; four numbers in rows of one
\* length are taken whatever the rows and the comments between them.
C11_LoadParsing ==
  op = "load" =>
    /\ (Len(FileValues) # 4 \/ ~AllNumeric) => err = "ValueError"
    /\ err \in {NoErr, "ValueError"}
    /\ err = NoErr =>
         /\ Len(FileValues) = 4 /\ AllNumeric
         /\ fresh.t = <<ParseFloat(FileValues[1]), ParseFloat(FileValues[2])>>
         /\ fresh.R = Similarity(ParseFloat(FileValues[3]), ParseFloat(FileValues[4]))
    /\ (Len(FileValues) = 4 /\ AllNumeric /\ Rectangular) => err = NoErr

\* C11 witness: a hand-written file of four values one on a line, a comment
\* between them, was loaded
C11_Witness ==
  /\ op = "load"
  /\ err = NoErr
  /\ Len(file.lines) = 5
  /\ Len(CommentLines(file)) = 1
  /\ fresh.t = <<Q(2), Rat(-3, 2)>>
  /\ fresh.R = Similarity(Rat(1, 2), Q(-1))

(***************************************************************************)
(* Properties of the tools, checked under SpecTool.                        *)
(***************************************************************************)
\* R[0][0] == R[1][1] and R[0][1] == -R[1][0]
SimilarityForm(R) == R[1][1] = R[2][2] /\ R[1][2] = Neg(R[2][1])

\* C12: the matrix of every Transform made by calculate_transform, in each of the
\* three strategies, by Transform() or by load has R[0][0] = R[1][1] and
\* R[0][1] = -R[1][0], and so a determinant that is not negative.
C12_SimilarityStructure ==
  /\ xfm # None => (SimilarityForm(xfm.R) /\ ~Less(Det(xfm.R), Zero))
  /\ fresh # None => (SimilarityForm(fresh.R) /\ ~Less(Det(fresh.R), Zero))

\* C12 witness: a Transform of the SVD strategy that turns by a quarter, saved,
\* and loaded into a Transform()
C12_Witness ==
  /\ xfm # None
  /\ xfm.transform_type = "SVD"
  /\ ~IsZero(xfm.R[2][1])
  /\ fresh # None
  /\ op = "load"
  /\ err = NoErr
  /\ fresh.R # Identity2

\* the rotation text has n tokens, each the text of a number
Numeric(n) ==
  /\ rot_text # None
  /\ Len(rot_text.tokens) = n
  /\ \A k \in 1..n : rot_text.tokens[k].kind # "word"
\* the text has no token, more than three, or one that is no number
Malformed ==
  /\ rot_text # None
  /\ \/ Len(rot_text.tokens) \notin 1..3
     \/ \E k \in 1..Len(rot_text.tokens) : rot_text.tokens[k].kind = "word"

\* C19: a rotation text of one numeric token is taken as decimal degrees and the
\* tool goes on to the estimator with it; texts of two or three tokens that
\* dms_degrees accepts go on with their decimal value; a text with no token,
\* more than three, or a non-numeric one is reported as a bad rotation value
\* and the tool never reaches the estimator.
C19_RotationText ==
  /\ (op = "rotation" /\ Numeric(1)) =>
       (pc = "scale" /\ rotate = rot_text.tokens[1].val)
  /\ (op = "rotation" /\ (Numeric(2) \/ Numeric(3)) /\ ParseRotation(rot_text).err = NoErr) =>
       (pc = "scale" /\ rotate = ParseRotation(rot_text).val)
  /\ (op = "rotation" /\ Malformed) => (pc = "exit" /\ err = "Bad rotation value")
  /\ Malformed => (pc \in {"rotation", "exit"} /\ xfm = None /\ file = None)

\* a Transform with a 2 x 2 matrix R and a 2-vector t of numbers, and the tag
\* of the strategy chosen for n links
Complete(x, n) ==
  /\ Len(x.R) = 2 /\ Len(x.t) = 2
  /\ \A i \in 1..2 : Len(x.R[i]) = 2 /\ x.t[i][2] > 0 /\ \A j \in 1..2 : x.R[i][j][2] > 0
  /\ x.transform_type \in Tags
  /\ x.transform_type = TransformType(n, rotate, scale)
\* the weights of the tool, none, and a list one entry longer
EstimatorWeights == {weights, None, weights \o <<<<"0", One>>>>}
Exceptions == {"AssertionError", "ZeroDivisionError", "MirroredTransformError", "LinAlgError"}

\* C20: every outcome of calculate_transform is a Transform with R, t and the
\* strategy tag set, or an exception with nothing returned; no links, weights
\* of another length and weights that are all zero raise.  In the tool xfm is
\* bound only to a complete Transform, the parameter file is written only after
\* the estimator returned one and holds that Transform, and a tool that exited
\* or ended with an exception wrote no file.
C20_NoPartialSuccess ==
  /\ \A w \in EstimatorWeights :
       \A o \in calculate_transform(links, w, rotate, scale) :
         /\ IF o.err = NoErr THEN Complete(o.xfm, Len(links))
            ELSE o.err \in Exceptions /\ o.xfm = None
         /\ (Len(links) = 0 \/ (w # None /\ Len(w) # Len(links))) => o.err = "AssertionError"
         /\ (Len(links) > 0 /\ w = weights /\ \A i \in 1..Len(w) : w[i][2] = Zero) =>
              o.err = "ZeroDivisionError"
  /\ xfm # None => (Complete(xfm, Len(links)) /\ pc \in {"save", "report", "done"})
  /\ file # None =>
       /\ xfm # None
       /\ pc \in {"report", "done"}
       /\ \E now \in Timestamps : file = Save(xfm, now)
  /\ pc \in {"rotation", "scale", "estimate", "exit", "crash"} => (xfm = None /\ file = None)

\* C20 witness: the estimator raised MirroredTransformError in the tool, which
\* ended with no Transform and no file
C20_Witness ==
  /\ op = "calculate_transform"
  /\ pc = "crash"
  /\ err = "MirroredTransformError"
  /\ xfm = None
  /\ file = None

(***************************************************************************)
(* Properties of the Transform methods, checked under SpecObj.             *)
(***************************************************************************)
Readers == {"translation", "rotation", "scale", "forward", "inverse", "save", "calculate_errors"}

\* C21: translation, rotation, scale, forward, inverse, save and
\* calculate_errors leave R and t (the whole Transform) as they were, so that
\* forward and inverse answer every point after the call as before it; a load
\* that succeeds sets both R and t from the four values a0, b0, a1, b1 of the file.
C21_OnlyLoadChanges ==
  /\ [][op' \in Readers =>
         /\ xfm' = xfm
         /\ \A p \in QueryPts :
              ForwardCall(xfm', p) = ForwardCall(xfm, p)
                /\ InverseCall(xfm', p) = InverseCall(xfm, p)]_vars
  /\ [][(op' = "load" /\ err' = NoErr) =>
         LET v == LoadTxt(file)
         IN  xfm'.R = <<<<v[3], Neg(v[4])>>, <<v[4], v[3]>>>> /\ xfm'.t = <<v[1], v[2]>>]_vars
  /\ [][xfm' # xfm => op' = "load"]_vars

\* C21 witness: after forward and one of translation, rotation and scale, a
\* load from a file written by hand replaced both R and t
C21_Witness ==
  /\ op = "load"
  /\ err = NoErr
  /\ trail # <<>>
  /\ ret # None
  /\ xfm.R = Similarity(Rat(1, 2), Q(-1))
  /\ xfm.t = <<Q(2), Rat(-3, 2)>>

\* the file holds exactly four values, each a number
FourNumbers(f) == ~LoadTxtRaises(f) /\ Len(LoadTxt(f)) = 4

\* C26: a load from a file that does not hold exactly four numeric values
\* raises ValueError and leaves the Transform, R and t, as it was; after any
\* load the Transform is either the one before the call or has both R and t
\* from the file, never one of the two only.
C26_LoadAtomic ==
  /\ [][(op' = "load" /\ ~FourNumbers(file)) => (err' = "ValueError" /\ xfm' = xfm)]_vars
  /\ [][op' = "load" =>
         \/ err' # NoErr /\ xfm'.R = xfm.R /\ xfm'.t = xfm.t
         \/ /\ err' = NoErr
            /\ FourNumbers(file)
            /\ xfm'.t = <<LoadTxt(file)[1], LoadTxt(file)[2]>>
            /\ A1(xfm') = LoadTxt(file)[3]
            /\ B1(xfm') = LoadTxt(file)[4]]_vars

\* C26 witness: a load from a file of three values failed on a Transform whose
\* R and t are not those of the file, and both are what they were
C26_Witness ==
  /\ op = "load"
  /\ err = "ValueError"
  /\ ~LoadTxtRaises(file)
  /\ Len(LoadTxt(file)) = 3
  /\ xfm.R = Similarity(Rat(3, 2), Rat(-1, 2))
  /\ xfm.t = <<One, Rat(-1, 2)>>
  /\ xfm.t # <<LoadTxt(file)[1], LoadTxt(file)[2]>>

(***************************************************************************)
(* Properties of dms_degrees, checked under SpecDms.                       *)
(***************************************************************************)
Converted == op = "dms_degrees"
Triple == dms.form = "seq" /\ Len(dms.val) = 3
Pair == dms.form = "seq" /\ Len(dms.val) = 2
\* deg - part when deg < 0, deg + part otherwise
Signed(deg, part) == IF Less(deg, Zero) THEN Sub(deg, part) ELSE Add(deg, part)

\* C16: an accepted (deg, min, sec) gives deg - (min/60 + sec/3600) when deg < 0
\* and deg + (min/60 + sec/3600) otherwise; (-1, 6, 27) gives -1.1075; an accepted
\* (deg, min) gives the same with the whole part of min for the minutes and 60
\* times its fraction for the seconds: (123, 45.5) gives 123 + 45/60 + 30/3600.
C16_DmsValue ==
  (Converted /\ err = NoErr) =>
    /\ Triple =>
         angle = Signed(dms.val[1], Add(Div(dms.val[2], Q(60)), Div(dms.val[3], Q(3600))))
    /\ Pair =>
         LET whole == Q(Trunc(dms.val[2]))
             rest == Mul(Sub(dms.val[2], whole), Q(60))
         IN  angle = Signed(dms.val[1], Add(Div(whole, Q(60)), Div(rest, Q(3600))))
    /\ dms = SeqArg(<<Q(123), Rat(91, 2)>>) => angle = Rat(14851, 120)
    /\ dms = SeqArg(<<Q(-1), Q(6), Q(27)>>) => angle = Rat(-11075, 10000)

\* C16 witness: (-1, 6, 27) was converted to -1.1075
C16_Witness ==
  /\ Converted
  /\ err = NoErr
  /\ dms = SeqArg(<<Q(-1), Q(6), Q(27)>>)
  /\ angle = Rat(-11075, 10000)

InRange(q) == ~Less(q, Zero) /\ Less(q, Q(60))
\* the digits MM and SSss of a packed DDD.MMSSss
PackedMin(v) == Q(Trunc(Mul(Sub(RAbs(v), Q(Trunc(RAbs(v)))), Q(100))))
PackedSec(v) == Mul(Sub(Mul(Sub(RAbs(v), Q(Trunc(RAbs(v)))), Q(100)), PackedMin(v)), Q(100))
\* the minutes and seconds of the argument, in its three forms
MinutesGiven ==
  IF dms.form = "float" THEN PackedMin(dms.val) ELSE dms.val[2]
SecondsGiven ==
  IF dms.form = "float" THEN PackedSec(dms.val)
  ELSE IF Triple THEN dms.val[3]
  ELSE Zero

\* C17: in each of the three forms, packed float, (deg, min) and (deg, min, sec),
\* minutes or seconds that are negative or 60 and more raise ValueError and give
\* no value; (123, 60.25) and (123, 45, 60.0) are among them; a value is returned
\* only when both lie in [0, 60).
C17_MinSecRange ==
  (Converted /\ (dms.form = "float" \/ Triple \/ Pair)) =>
    /\ (~InRange(MinutesGiven) \/ ~InRange(SecondsGiven)) => (err = "ValueError" /\ angle = None)
    /\ err = NoErr => (InRange(MinutesGiven) /\ InRange(SecondsGiven) /\ angle # None)
    /\ dms \in {SeqArg(<<Q(123), Rat(241, 4)>>), SeqArg(<<Q(123), Q(45), Q(60)>>)} =>
         err = "ValueError"

\* C17 witness: (123, 45, 60.0) was rejected
C17_Witness ==
  /\ Converted
  /\ dms = SeqArg(<<Q(123), Q(45), Q(60)>>)
  /\ err = "ValueError"
  /\ angle = None

Whole(q) == q[2] = 1

\* C18: a (deg, min, sec) whose degrees or minutes are not whole numbers raises
\* ValueError, and so does a (deg, min) whose degrees are not whole; the seconds
\* may have a fraction.  The minutes of a (deg, min) may have one too: with whole
\* degrees and minutes in [0, 60) the pair is accepted, the fraction of the
\* minutes counted as seconds.
C18_WholeDegMin ==
  Converted =>
    /\ (Triple /\ (~Whole(dms.val[1]) \/ ~Whole(dms.val[2]))) => err = "ValueError"
    /\ (Pair /\ ~Whole(dms.val[1])) => err = "ValueError"
    /\ (Pair /\ Whole(dms.val[1]) /\ InRange(dms.val[2])) => err = NoErr
    /\ (Triple /\ Whole(dms.val[1]) /\ Whole(dms.val[2])
          /\ InRange(dms.val[2]) /\ InRange(dms.val[3])) => err = NoErr

\* C18 witness: (123.125, 45, 30.01) was rejected, its minutes and seconds in range
C18_Witness ==
  /\ Converted
  /\ dms = SeqArg(<<Rat(985, 8), Q(45), Rat(3001, 100)>>)
  /\ err = "ValueError"

\* C18 as stated: a sequence of two or three components whose degrees or minutes
\* are not whole numbers is rejected
C18_WholeDegMinPairs ==
  (Converted /\ (Triple \/ Pair) /\ (~Whole(dms.val[1]) \/ ~Whole(dms.val[2]))) =>
    err = "ValueError"

\* C25: for a packed value x = DDD.MMSS with valid minutes and seconds, the
\* whole degrees zero or not, dms_degrees(-x) is -dms_degrees(x): the negative
\* packed angle gives the negative decimal angle of the same size.
C25_PackedSignSymmetry ==
  (Converted /\ dms.form = "float" /\ err = NoErr) =>
    /\ dms_degrees(FloatArg(Neg(dms.val))).err = NoErr
    /\ dms_degrees(FloatArg(Neg(dms.val))).val = Neg(angle)
    /\ Less(dms.val, Zero) => Less(angle, Zero)

====
